---- MODULE Spec2Model ----
(***************************************************************************)
(* Model of cargo-edit's dependency resolution helpers:                    *)
(*   src/src/fetch.rs       read_latest_version, gen_fuzzy_crate_names,    *)
(*                          fuzzy_query_registry_index,                    *)
(*                          update_registry_index, get_manifest_from_url   *)
(*   src/src/crate_name.rs  CrateName::parse_version_or_features           *)
(*                                                                         *)
(* Strings are sequences of one-character strings.  Option<T> is a         *)
(* sequence of length 0 (None) or 1 (Some).                                *)
(* The semver crate is the 1.x line (fetch.rs needs crate::VersionExt for  *)
(* is_prerelease); its ordering and requirement grammar are modelled on    *)
(* the values the inputs below can take.                                   *)
(***************************************************************************)
EXTENDS Integers, Sequences, FiniteSets, TLC

VARIABLES
    pc,                    \* position of the call being modelled
    versions,              \* read_latest_version: &[CrateVersion]
    flag_allow_prerelease, \* read_latest_version: flag
    latest,                \* read_latest_version: Result<Dependency>
    crate_name,            \* gen_fuzzy_crate_names / fuzzy query: input name
    names,                 \* gen_fuzzy_crate_names: Result<Vec<String>>
    index,                 \* registry index content: name -> version records
    probed,                \* names handed to index.crate_(), in order
    crate_versions,        \* fuzzy_query_registry_index: Result<Vec<CrateVersion>>
    specifier,             \* CrateName.0
    parsed,                \* parse_version_or_features: Result<Option<Dependency>>
    url,                   \* get_manifest_from_url: argument
    fetched,               \* raw-content URLs requested over HTTP, in order
    manifest,              \* get_manifest_from_url: Result<Option<Manifest>>
    quiet,                 \* update_registry_index: flag
    attempts,              \* number of index.update() calls made
    lastOutcome,           \* outcome of the latest index.update()
    output,                \* what was written to the stderr stream
    events,                \* log of attempts, reports and sleeps, in order
    result                 \* update_registry_index: Result<()>

vars == <<pc, versions, flag_allow_prerelease, latest, crate_name, names,
          index, probed, crate_versions, specifier, parsed, url, fetched,
          manifest, quiet, attempts, lastOutcome, output, events, result>>

selVars == <<versions, flag_allow_prerelease, latest>>
fuzzVars == <<names>>
queryVars == <<index, probed, crate_versions>>
parseVars == <<specifier, parsed>>
urlVars == <<url, fetched, manifest>>
updVars == <<quiet, attempts, lastOutcome, output, events, result>>

----
(* Bounds of the model. *)
MaxVersions == 2        \* longest list of version records
MaxNameLen == 3         \* longest short crate name
MaxExtra == 1           \* separators beyond the cap in a long crate name
MaxIndexed == 2         \* most names present in the index
MaxSpecLen == 5         \* longest specifier
MaxTailLen == 6         \* longest URL tail, in symbols
MaxAttempts == 4        \* most index.update() attempts followed

----
(* Strings. *)
NoneVal == <<>>
Some(x) == <<x>>

SeqsUpTo(S, n) == UNION {[1..k -> S] : k \in 0..n}

Contains(s, c) == \E i \in 1..Len(s) : s[i] = c

Position(s, c) == CHOOSE i \in 1..Len(s) : s[i] = c /\ \A j \in 1..(i - 1) : s[j] # c

\* str::splitn(2, c): the text before the first c and the text after it.
SplitN2(s, c) ==
    IF Contains(s, c)
    THEN <<SubSeq(s, 1, Position(s, c) - 1), SubSeq(s, Position(s, c) + 1, Len(s))>>
    ELSE <<s>>

\* str::split(c): every piece between occurrences of c, empty pieces kept.
RECURSIVE Split(_, _)
Split(s, c) ==
    IF Contains(s, c)
    THEN <<SubSeq(s, 1, Position(s, c) - 1)>>
         \o Split(SubSeq(s, Position(s, c) + 1, Len(s)), c)
    ELSE <<s>>

Min(a, b) == IF a <= b THEN a ELSE b

----
(* semver::Version, as far as read_latest_version uses it. *)

\* A prerelease identifier: numeric, or alphanumeric (AlnumIds[n]).
NumId(n) == [num |-> TRUE, n |-> n]
AlnumId(n) == [num |-> FALSE, n |-> n]

\* The alphanumeric identifiers in use, in ASCII order.
AlnumIds == << <<"a", "l", "p", "h", "a">>, <<"b", "e", "t", "a">> >>

Version(major, minor, patch, pre) ==
    [major |-> major, minor |-> minor, patch |-> patch, pre |-> pre]

Cmp(a, b) == IF a < b THEN -1 ELSE IF a > b THEN 1 ELSE 0

\* Ord for one prerelease identifier: numeric before alphanumeric, numbers
\* by value, alphanumerics in ASCII order.
cmp_identifier(a, b) ==
    IF a.num /\ b.num THEN Cmp(a.n, b.n)
    ELSE IF a.num THEN -1
    ELSE IF b.num THEN 1
    ELSE Cmp(a.n, b.n)

RECURSIVE cmp_identifiers(_, _)
cmp_identifiers(p, q) ==
    IF p = <<>> /\ q = <<>> THEN 0
    ELSE IF p = <<>> THEN -1
    ELSE IF q = <<>> THEN 1
    ELSE IF cmp_identifier(Head(p), Head(q)) # 0 THEN cmp_identifier(Head(p), Head(q))
    ELSE cmp_identifiers(Tail(p), Tail(q))

\* Ord for Prerelease: the empty prerelease (a release) is the greatest.
cmp_prerelease(p, q) ==
    IF p = <<>> /\ q = <<>> THEN 0
    ELSE IF p = <<>> THEN 1
    ELSE IF q = <<>> THEN -1
    ELSE cmp_identifiers(p, q)

\* Ord for Version: major, minor, patch, then prerelease.
cmp_version(a, b) ==
    IF a.major # b.major THEN Cmp(a.major, b.major)
    ELSE IF a.minor # b.minor THEN Cmp(a.minor, b.minor)
    ELSE IF a.patch # b.patch THEN Cmp(a.patch, b.patch)
    ELSE cmp_prerelease(a.pre, b.pre)

\* VersionExt::is_prerelease
is_prerelease(v) == v.pre # <<>>

Digits == <<"0", "1", "2", "3", "4", "5", "6", "7", "8", "9">>

\* Display for an unsigned number.
RECURSIVE num_to_string(_)
num_to_string(n) ==
    IF n < 10 THEN <<Digits[n + 1]>>
    ELSE num_to_string(n \div 10) \o <<Digits[(n % 10) + 1]>>

identifier_to_string(id) == IF id.num THEN num_to_string(id.n) ELSE AlnumIds[id.n]

RECURSIVE prerelease_to_string(_)
prerelease_to_string(p) ==
    IF Len(p) = 1 THEN identifier_to_string(p[1])
    ELSE identifier_to_string(p[1]) \o <<".">> \o prerelease_to_string(Tail(p))

\* Display for Version: major.minor.patch[-prerelease]
version_to_string(v) ==
    num_to_string(v.major) \o <<".">> \o num_to_string(v.minor) \o <<".">>
    \o num_to_string(v.patch)
    \o (IF v.pre = <<>> THEN <<>> ELSE <<"-">> \o prerelease_to_string(v.pre))

----
(* read_latest_version *)

CrateVersion(name, version, yanked, available_features) ==
    [name |-> name, version |-> version, yanked |-> yanked,
     available_features |-> available_features]

version_is_stable(v) == ~is_prerelease(v.version)

\* A first filter that lets every prerelease through.
filter_prerelease_ignoring_stability(v, flag) == TRUE

\* .filter(|&v| flag_allow_prerelease || version_is_stable(v))
filter_prerelease(v, flag) == flag \/ version_is_stable(v)

\* A second filter that lets yanked records through.
filter_yanked_keeping_all(v) == TRUE

\* .filter(|&v| !v.yanked)
filter_yanked(v) == ~v.yanked

\* A selection that keeps the first record instead of the greatest.
max_by_key_first(vs) == IF vs = <<>> THEN NoneVal ELSE Some(vs[1])

\* Iterator::max_by_key: a fold that keeps the later element unless the
\* earlier one is strictly greater.
RECURSIVE max_fold(_, _)
max_fold(best, rest) ==
    IF rest = <<>> THEN best
    ELSE max_fold(IF cmp_version(best.version, Head(rest).version) = 1
                  THEN best ELSE Head(rest),
                  Tail(rest))

max_by_key(vs) == IF vs = <<>> THEN NoneVal ELSE Some(max_fold(Head(vs), Tail(vs)))

Ok(v) == [ok |-> TRUE, val |-> v]
Err(e) == [ok |-> FALSE, err |-> e]

\* Dependency::new(name).set_version(version).set_available_features(f)
Dependency(name, version, features, available_features) ==
    [name |-> name, version |-> version, features |-> features,
     available_features |-> available_features]

read_latest_version(vs, flag) ==
    LET kept1 == SelectSeq(vs, LAMBDA v : filter_prerelease(v, flag))
        kept2 == SelectSeq(kept1, filter_yanked)
        found == max_by_key(kept2)
    IN  IF found = NoneVal THEN Err("NoVersionsAvailable")
        ELSE Ok(Dependency(found[1].name,
                           Some(version_to_string(found[1].version)),
                           NoneVal,
                           found[1].available_features))

----
(* gen_fuzzy_crate_names *)

\* const PATTERN: [u8; 2] = [b'-', b'_'];
PATTERN == {"-", "_"}

\* .take(10)
WildcardCap == 10

\* The indexes of the name's '-' and '_' bytes, in order, at most WildcardCap.
RECURSIVE wildcard_scan(_, _, _)
wildcard_scan(s, i, acc) ==
    IF i > Len(s) \/ Len(acc) = WildcardCap THEN acc
    ELSE wildcard_scan(s, i + 1, IF s[i] \in PATTERN THEN Append(acc, i) ELSE acc)

wildcard_indexs(s) == wildcard_scan(s, 1, <<>>)

\* A bit test that reads the bit above the intended one.
mask_value_shifted(mask, mask_index) == (mask \div 2 ^ (mask_index + 1)) % 2 = 1

\* (mask >> mask_index) & 1 == 1
mask_value(mask, mask_index) == (mask \div 2 ^ mask_index) % 2 = 1

\* The inner loop: every wildcard index of bytes is overwritten for this mask.
RECURSIVE apply_mask(_, _, _, _)
apply_mask(bytes, mask, idxs, j) ==
    IF j > Len(idxs) THEN bytes
    ELSE apply_mask([bytes EXCEPT ![idxs[j]] =
                        IF mask_value(mask, j - 1) THEN "-" ELSE "_"],
                    mask, idxs, j + 1)

\* The outer loop over mask in 0 .. 2^len - 1.  The byte buffer is carried from
\* one mask to the next; as the inner loop overwrites every wildcard index, the
\* buffer pushed for a mask is apply_mask of the name itself.
fuzzy_masks(s, idxs) ==
    [m \in 1..(2 ^ Len(idxs)) |-> apply_mask(s, m - 1, idxs, 1)]

gen_fuzzy_crate_names(s) ==
    IF wildcard_indexs(s) = <<>> THEN <<s>>
    ELSE fuzzy_masks(s, wildcard_indexs(s))

----
(* fuzzy_query_registry_index *)

\* A swap that is skipped: the generated order is probed as it is.
swap_unswapped(s, i, j) == s

\* Vec::swap(i, j)
swap(s, i, j) == [s EXCEPT ![i] = s[j], ![j] = s[i]]

\* names.iter().position(|x| *x == crate_name), then names.swap(index, 0)
probe_order(name) ==
    LET generated == gen_fuzzy_crate_names(name)
    IN  IF \E i \in 1..Len(generated) : generated[i] = name
        THEN swap(generated,
                  CHOOSE i \in 1..Len(generated) :
                      generated[i] = name /\ \A j \in 1..(i - 1) : generated[j] # name,
                  1)
        ELSE generated

\* .map(|v| Ok(CrateVersion { .., version: v.version().parse()?, .. })).collect()
\* An index record holds the outcome of parsing its version text: Some(version)
\* or None when the text is no semantic version.
collect_versions(records) ==
    IF \E i \in 1..Len(records) : records[i].version = NoneVal
    THEN Err(<<"ParseVersion">>)
    ELSE Ok([i \in 1..Len(records) |->
                CrateVersion(records[i].name, records[i].version[1],
                             records[i].yanked, records[i].available_features)])

\* The loop over names: the names handed to index.crate_() and the result.
\* idx maps each crate name present in the index to its version records.
fuzzy_query_registry_index(name, idx) ==
    LET order == probe_order(name)
        hits == {i \in 1..Len(order) : order[i] \in DOMAIN idx}
    IN  IF hits = {}
        THEN [probed |-> order, result |-> Err(<<"NoCrate", name>>)]
        ELSE LET first == CHOOSE i \in hits : \A j \in hits : i <= j
             IN  [probed |-> SubSeq(order, 1, first),
                  result |-> collect_versions(idx[order[first]])]

----
(* CrateName::parse_version_or_features *)

DigitChars == {"0", "1", "2", "3", "4", "5", "6", "7", "8", "9"}

LowerChars == {"a", "b", "c", "d", "e", "f", "g", "h", "i", "j", "k", "l", "m",
               "n", "o", "p", "q", "r", "s", "t", "u", "v", "w", "x", "y", "z"}

UpperChars == {"A", "B", "C", "D", "E", "F", "G", "H", "I", "J", "K", "L", "M",
               "N", "O", "P", "Q", "R", "S", "T", "U", "V", "W", "X", "Y", "Z"}

\* A numeric field of a comparator: digits, no leading zero.
is_numeric_field(t) ==
    /\ t # <<>>
    /\ \A i \in 1..Len(t) : t[i] \in DigitChars
    /\ (Len(t) > 1 => t[1] # "0")

\* Build metadata: dot-separated non-empty runs of [0-9A-Za-z-].
is_build_metadata(t) ==
    \A i \in 1..Len(Split(t, ".")) :
        /\ Split(t, ".")[i] # <<>>
        /\ \A j \in 1..Len(Split(t, ".")[i]) :
               Split(t, ".")[i][j] \in DigitChars \cup LowerChars \cup UpperChars \cup {"-"}

\* One comparator without operator, wildcard, prerelease or blanks:
\* major[.minor[.patch[+build]]]
is_comparator(t) ==
    LET core == SplitN2(t, "+")[1]
        fields == Split(core, ".")
    IN  /\ Len(fields) \in 1..3
        /\ \A i \in 1..Len(fields) : is_numeric_field(fields[i])
        /\ (Contains(t, "+") => Len(fields) = 3 /\ is_build_metadata(SplitN2(t, "+")[2]))

\* semver::VersionReq::parse succeeds: comma-separated comparators, none empty
\* (the grammar on texts made of digits, letters and the bytes . + , @).
version_req_parse_ok(t) ==
    \A i \in 1..Len(Split(t, ",")) : is_comparator(Split(t, ",")[i])

\* A requirement check whose outcome is dropped.
version_req_error_dropped(t) == FALSE

\* semver::VersionReq::parse(version.unwrap()).chain_err(..)? returns early
version_req_error(t) == ~version_req_parse_ok(t)

\* CrateName::has_version
has_version(s) == Contains(s, "@")

parse_version_or_features(s) ==
    LET features == IF Contains(s, "+") THEN Some(SplitN2(s, "+")[2]) ELSE NoneVal
        version == IF has_version(s) THEN Some(SplitN2(s, "@")[2]) ELSE NoneVal
        name == IF has_version(s) THEN SplitN2(s, "@")[1]
                ELSE IF Contains(s, "+") THEN SplitN2(s, "+")[1]
                ELSE s
    IN  IF has_version(s) /\ version_req_error(version[1])
        THEN Err("Invalid crate version requirement")
        ELSE IF features # NoneVal \/ version # NoneVal
        THEN Ok(Some(Dependency(name,
                                version,
                                IF features = NoneVal THEN NoneVal
                                ELSE Some(Split(features[1], ",")),
                                NoneVal)))
        ELSE Ok(NoneVal)

----
(* get_manifest_from_url *)

GithubHost == <<"h", "t", "t", "p", "s", ":", "/", "/",
                "g", "i", "t", "h", "u", "b", ".", "c", "o", "m">>

GitlabHost == <<"h", "t", "t", "p", "s", ":", "/", "/",
                "g", "i", "t", "l", "a", "b", ".", "c", "o", "m">>

\* str::contains(&str)
ContainsStr(s, t) ==
    \E i \in 1..(Len(s) - Len(t) + 1) : SubSeq(s, i, i + Len(t) - 1) = t

is_github_url(u) == ContainsStr(u, GithubHost)

is_gitlab_url(u) == ContainsStr(u, GitlabHost)

\* [-_0-9a-zA-Z]
ClassChars == DigitChars \cup LowerChars \cup UpperChars \cup {"-", "_"}

IsClassRun(t) == t # <<>> /\ \A i \in 1..Len(t) : t[i] \in ClassChars

\* The regex atom '.': any character but a line feed.
AnyChar(c) == c # "\n"

\* The pattern's literal prefix "^https://<host>/", in which the '.' of the
\* host is the regex atom '.'.
MatchesHostPrefix(u, host) ==
    /\ Len(u) >= Len(host) + 1
    /\ \A i \in 1..Len(host) : IF host[i] = "." THEN AnyChar(u[i]) ELSE u[i] = host[i]
    /\ u[Len(host) + 1] = "/"

\* (/|.git)?$ on the text left after the second capture group
MatchesSuffix(t) ==
    \/ t = <<>>
    \/ t = <<"/">>
    \/ Len(t) = 4 /\ AnyChar(t[1]) /\ SubSeq(t, 2, 4) = <<"g", "i", "t">>

\* The ways ([-_0-9a-zA-Z]+)/([-_0-9a-zA-Z]+)(/|.git)?$ matches the text after
\* the prefix: <<a, b>> with the first group t[1..a] and the second t[a+2..b].
RepoMatches(t) ==
    {ab \in (1..Len(t)) \X (1..Len(t)) :
        /\ ab[1] + 2 <= ab[2]
        /\ IsClassRun(SubSeq(t, 1, ab[1]))
        /\ t[ab[1] + 1] = "/"
        /\ IsClassRun(SubSeq(t, ab[1] + 2, ab[2]))
        /\ MatchesSuffix(SubSeq(t, ab[2] + 1, Len(t)))}

\* Regex::captures: None, or the two groups of the match the engine prefers
\* (the greedy second group is the longest that lets the rest match).
captures(u, host) ==
    IF ~MatchesHostPrefix(u, host) THEN NoneVal
    ELSE LET t == SubSeq(u, Len(host) + 2, Len(u))
         IN  IF RepoMatches(t) = {} THEN NoneVal
             ELSE LET ab == CHOOSE x \in RepoMatches(t) :
                                \A y \in RepoMatches(t) : y[2] <= x[2]
                  IN  Some(<<SubSeq(t, 1, ab[1]), SubSeq(t, ab[1] + 2, ab[2])>>)

\* The raw-content URL built by the url_template closure, as its parts.
github_template(user, repo) ==
    <<"https://raw.githubusercontent.com/", user, "/", repo, "/master/Cargo.toml">>

gitlab_template(user, repo) ==
    <<"https://gitlab.com/", user, "/", repo, "/raw/master/Cargo.toml">>

\* get_manifest_from_repository: the requests made and the result, for the
\* outcome http of the request (if one is made).
get_manifest_from_repository(u, host, http) ==
    LET cap == captures(u, host)
        target == IF host = GithubHost THEN github_template(cap[1][1], cap[1][2])
                  ELSE gitlab_template(cap[1][1], cap[1][2])
    IN  IF cap = NoneVal
        THEN [fetched |-> <<>>, result |-> Err("Unable to parse git repo URL")]
        ELSE [fetched |-> <<target>>,
              result |-> IF http = "manifest" THEN Ok(Some(<<"Manifest", target>>))
                         ELSE IF http = "not_toml" THEN Err("ParseCargoToml")
                         ELSE Err(<<"HTTP request failed", target>>)]

get_manifest_from_url(u, http) ==
    IF is_github_url(u) THEN get_manifest_from_repository(u, GithubHost, http)
    ELSE IF is_gitlab_url(u) THEN get_manifest_from_repository(u, GitlabHost, http)
    ELSE [fetched |-> <<>>, result |-> Ok(NoneVal)]

----
(* update_registry_index *)

GitError(class, code) == [kind |-> "Git", class |-> class, code |-> code]
OtherError(kind) == [kind |-> kind, class |-> "none", code |-> "none"]
IoError == OtherError("Io")

\* Ok(()) of index.update()
Updated == OtherError("Ok")

\* What one index.update() can return: Ok(()) or a crates_index::Error.
UpdateErrors ==
    {GitError(class, code) : class \in {"Index", "Net", "Os"},
                             code \in {"Locked", "NotFound", "GenericError"}}
    \cup {OtherError("Url"), IoError}

UpdateOutcomes == {Updated} \cup UpdateErrors

Event(ev, res) == [ev |-> ev, res |-> res]

\* A lock test that accepts either half of the condition.
is_index_locked_either(err) == err.class = "Index" \/ err.code = "Locked"

\* err.class() == git2::ErrorClass::Index && err.code() == git2::ErrorCode::Locked
is_index_locked(err) == err.class = "Index" /\ err.code = "Locked"

\* need_retry: Ok(false), Ok(true) or the error, converted.
need_retry(res) ==
    IF res = Updated THEN Ok(FALSE)
    ELSE IF res.kind = "Git"
    THEN IF is_index_locked(res) THEN Ok(TRUE) ELSE Err(res)
    ELSE Err(res)

\* crates_index::Index::from_url(registry.as_str())?
OpenIndex ==
    /\ pc = "open"
    /\ \E opened \in BOOLEAN :
        IF opened
        THEN pc' = (IF quiet THEN "loop" ELSE "announce") /\ result' = result
        ELSE pc' = "returned" /\ result' = Err(OtherError("Url"))
    /\ UNCHANGED <<quiet, attempts, lastOutcome, output, events>>
    /\ UNCHANGED <<selVars, crate_name, fuzzVars, queryVars, parseVars, urlVars>>

\* if !quiet { the "Updating '<registry>' index" line, each write with ? }
Announce ==
    /\ pc = "announce"
    /\ \E written \in BOOLEAN :
        IF written
        THEN pc' = "loop" /\ output' = Append(output, "Updating") /\ result' = result
        ELSE pc' = "returned" /\ output' = output /\ result' = Err(IoError)
    /\ UNCHANGED <<quiet, attempts, lastOutcome, events>>
    /\ UNCHANGED <<selVars, crate_name, fuzzVars, queryVars, parseVars, urlVars>>

\* The loop condition need_retry(index.update())?
Attempt ==
    /\ pc = "loop"
    /\ attempts < MaxAttempts
    /\ \E res \in UpdateOutcomes :
        /\ attempts' = attempts + 1
        /\ lastOutcome' = res
        /\ events' = Append(events, Event("attempt", res))
        /\ IF ~need_retry(res).ok
           THEN pc' = "returned" /\ result' = Err(need_retry(res).err)
           ELSE IF need_retry(res).val
           THEN pc' = "blocked" /\ result' = result
           ELSE pc' = "returned" /\ result' = Ok("unit")
    /\ UNCHANGED <<quiet, output>>
    /\ UNCHANGED <<selVars, crate_name, fuzzVars, queryVars, parseVars, urlVars>>

\* registry_blocked_message(&mut output)?
RegistryBlockedMessage ==
    /\ pc = "blocked"
    /\ \E written \in BOOLEAN :
        IF written
        THEN /\ pc' = "sleep"
             /\ output' = Append(output, "Blocking")
             /\ events' = Append(events, Event("report", Updated))
             /\ result' = result
        ELSE /\ pc' = "returned"
             /\ output' = output
             /\ events' = Append(events, Event("report", IoError))
             /\ result' = Err(IoError)
    /\ UNCHANGED <<quiet, attempts, lastOutcome>>
    /\ UNCHANGED <<selVars, crate_name, fuzzVars, queryVars, parseVars, urlVars>>

\* std::thread::sleep(REGISTRY_BACKOFF)
Sleep ==
    /\ pc = "sleep"
    /\ pc' = "loop"
    /\ events' = Append(events, Event("sleep", Updated))
    /\ UNCHANGED <<quiet, attempts, lastOutcome, output, result>>
    /\ UNCHANGED <<selVars, crate_name, fuzzVars, queryVars, parseVars, urlVars>>

----
(* The calls of the pure functions: the arguments are drawn in the initial
   state and one action applies the function. *)

ReadLatestVersion ==
    /\ pc = "read_latest_version"
    /\ pc' = "read_latest_version.return"
    /\ latest' = read_latest_version(versions, flag_allow_prerelease)
    /\ UNCHANGED <<versions, flag_allow_prerelease>>
    /\ UNCHANGED <<crate_name, fuzzVars, queryVars, parseVars, urlVars, updVars>>

GenFuzzyCrateNames ==
    /\ pc = "gen_fuzzy_crate_names"
    /\ pc' = "gen_fuzzy_crate_names.return"
    /\ names' = gen_fuzzy_crate_names(crate_name)
    /\ UNCHANGED <<selVars, crate_name, queryVars, parseVars, urlVars, updVars>>

\* Index::from_url(..)? and then the probing loop
FuzzyQueryRegistryIndex ==
    /\ pc = "fuzzy_query_registry_index"
    /\ pc' = "fuzzy_query_registry_index.return"
    /\ \E opened \in BOOLEAN :
        IF opened
        THEN LET query == fuzzy_query_registry_index(crate_name, index)
             IN  probed' = query.probed /\ crate_versions' = query.result
        ELSE /\ probed' = <<>>
             /\ crate_versions' = Err(<<"Url">>)
    /\ UNCHANGED <<selVars, crate_name, fuzzVars, index, parseVars, urlVars, updVars>>

ParseVersionOrFeatures ==
    /\ pc = "parse_version_or_features"
    /\ pc' = "parse_version_or_features.return"
    /\ parsed' = parse_version_or_features(specifier)
    /\ UNCHANGED <<selVars, crate_name, fuzzVars, queryVars, specifier, urlVars, updVars>>

\* The outcome of the HTTP request is the environment's choice.
GetManifestFromUrl ==
    /\ pc = "get_manifest_from_url"
    /\ pc' = "get_manifest_from_url.return"
    /\ \E http \in {"manifest", "not_toml", "failed"} :
        /\ fetched' = get_manifest_from_url(url, http).fetched
        /\ manifest' = get_manifest_from_url(url, http).result
    /\ UNCHANGED <<selVars, crate_name, fuzzVars, queryVars, parseVars, url, updVars>>

----
(* The arguments the calls are made with. *)

\* 0.5.0, 0.6.0-1, 0.6.0-alpha, 0.6.0-alpha.1, 0.6.0-beta, 0.6.0, 0.6.1, 1.0.0-alpha
SampleVersions ==
    {Version(0, 5, 0, <<>>),
     Version(0, 6, 0, <<NumId(1)>>),
     Version(0, 6, 0, <<AlnumId(1)>>),
     Version(0, 6, 0, <<AlnumId(1), NumId(1)>>),
     Version(0, 6, 0, <<AlnumId(2)>>),
     Version(0, 6, 0, <<>>),
     Version(0, 6, 1, <<>>),
     Version(1, 0, 0, <<AlnumId(1)>>)}

SampleCrates ==
    {[name |-> <<"f", "o", "o">>, available_features |-> <<>>],
     [name |-> <<"t", "r", "u", "e">>, available_features |-> << <<"s", "t", "d">> >>]}

SampleRecords ==
    {CrateVersion(c.name, v, y, c.available_features) :
        c \in SampleCrates, v \in SampleVersions, y \in BOOLEAN}

NameChars == {"-", "_", "a"}

ShortNames == SeqsUpTo(NameChars, MaxNameLen)

Run(c, n) == [i \in 1..n |-> c]

\* Names with about WildcardCap separators, some beyond the cap.
LongNames ==
    {pre \o Run(c, n) \o post :
        pre \in {<<>>, <<"a">>},
        c \in PATTERN,
        n \in (WildcardCap - 1)..(WildcardCap + MaxExtra),
        post \in {<<>>, <<"_">>, <<"a", "-">>}}

\* The name with the separator at index i replaced by the other one.
Flip(s, i) == [s EXCEPT ![i] = IF s[i] = "-" THEN "_" ELSE "-"]

AllSeparators(s, c) == [i \in 1..Len(s) |-> IF s[i] \in PATTERN THEN c ELSE s[i]]

SeparatorIndexes(s) == {j \in 1..Len(s) : s[j] \in PATTERN}

\* The first MaxNameLen separators of s and its last one.
FlipIndexes(s) ==
    {j \in SeparatorIndexes(s) :
        \/ Cardinality({i \in SeparatorIndexes(s) : i < j}) < MaxNameLen
        \/ \A i \in SeparatorIndexes(s) : i <= j}

\* Crate names the index is populated from, for a query of name s: s itself,
\* s with one of these separators changed, and the all-hyphen and
\* all-underscore forms.
IndexCandidates(s) ==
    {s, AllSeparators(s, "-"), AllSeparators(s, "_")}
    \cup {Flip(s, i) : i \in FlipIndexes(s)}

\* The index entry of crate n: two records, the second one with a version
\* text that is no semantic version when the entry is corrupt.
IndexEntry(n, corrupt) ==
    << [name |-> n, version |-> Some(Version(0, 5, 0, <<>>)), yanked |-> FALSE,
        available_features |-> <<>>],
       [name |-> n, version |-> IF corrupt THEN NoneVal ELSE Some(Version(0, 6, 0, <<>>)),
        yanked |-> FALSE, available_features |-> <<>>] >>

IndexContents(s) ==
    {[n \in present |-> IndexEntry(n, n \in corrupt)] :
        present \in {p \in SUBSET IndexCandidates(s) : Cardinality(p) <= MaxIndexed},
        corrupt \in {{}} \cup {{n} : n \in IndexCandidates(s)}}

QueryNames ==
    ShortNames
    \cup {<<"a">> \o Run(c, WildcardCap + MaxExtra) : c \in PATTERN}

SpecChars == {"a", "1", ".", "+", "@", ","}

Specifiers == SeqsUpTo(SpecChars, MaxSpecLen)

\* A URL is a sequence of pieces; its text is their concatenation.
UrlPieces == {<<"/">>, <<".">>, <<"#">>, <<"g", "i", "t">>}

RECURSIVE Concat(_)
Concat(ps) == IF ps = <<>> THEN <<>> ELSE Head(ps) \o Concat(Tail(ps))

\* A host with another byte in the place of the dot.
DotlessHost == [GithubHost EXCEPT ![15] = "x"]

Urls ==
    {head \o Concat(tail) \o trailer :
        head \in {<<>>, GithubHost, GitlabHost, DotlessHost},
        tail \in SeqsUpTo(UrlPieces, MaxTailLen),
        trailer \in {<<>>, GithubHost}}

----
(* Initial states and specifications, one per entry point. *)

IdleSelect == versions = <<>> /\ flag_allow_prerelease = FALSE /\ latest = NoneVal
IdleName == crate_name = <<>>
IdleFuzzy == names = <<>>
IdleQuery == index = <<>> /\ probed = <<>> /\ crate_versions = NoneVal
IdleParse == specifier = <<>> /\ parsed = NoneVal
IdleUrl == url = <<>> /\ fetched = <<>> /\ manifest = NoneVal
IdleUpdate ==
    /\ quiet = FALSE /\ attempts = 0 /\ lastOutcome = Updated
    /\ output = <<>> /\ events = <<>> /\ result = NoneVal

InitSelect ==
    /\ pc = "read_latest_version"
    /\ versions \in SeqsUpTo(SampleRecords, MaxVersions)
    /\ flag_allow_prerelease \in BOOLEAN
    /\ latest = NoneVal
    /\ IdleName /\ IdleFuzzy /\ IdleQuery /\ IdleParse /\ IdleUrl /\ IdleUpdate

InitFuzzy ==
    /\ pc = "gen_fuzzy_crate_names"
    /\ crate_name \in ShortNames \cup LongNames
    /\ names = <<>>
    /\ IdleSelect /\ IdleQuery /\ IdleParse /\ IdleUrl /\ IdleUpdate

InitQuery ==
    /\ pc = "fuzzy_query_registry_index"
    /\ crate_name \in QueryNames
    /\ index \in IndexContents(crate_name)
    /\ probed = <<>>
    /\ crate_versions = NoneVal
    /\ IdleSelect /\ IdleFuzzy /\ IdleParse /\ IdleUrl /\ IdleUpdate

InitParse ==
    /\ pc = "parse_version_or_features"
    /\ specifier \in Specifiers
    /\ parsed = NoneVal
    /\ IdleSelect /\ IdleName /\ IdleFuzzy /\ IdleQuery /\ IdleUrl /\ IdleUpdate

InitUrl ==
    /\ pc = "get_manifest_from_url"
    /\ url \in Urls
    /\ fetched = <<>>
    /\ manifest = NoneVal
    /\ IdleSelect /\ IdleName /\ IdleFuzzy /\ IdleQuery /\ IdleParse /\ IdleUpdate

InitUpdate ==
    /\ pc = "open"
    /\ quiet \in BOOLEAN
    /\ attempts = 0
    /\ lastOutcome = Updated
    /\ output = <<>>
    /\ events = <<>>
    /\ result = NoneVal
    /\ IdleSelect /\ IdleName /\ IdleFuzzy /\ IdleQuery /\ IdleParse /\ IdleUrl

NextUpdate == OpenIndex \/ Announce \/ Attempt \/ RegistryBlockedMessage \/ Sleep

SpecSelect == InitSelect /\ [][ReadLatestVersion]_vars
SpecFuzzy == InitFuzzy /\ [][GenFuzzyCrateNames]_vars
SpecQuery == InitQuery /\ [][FuzzyQueryRegistryIndex]_vars
SpecParse == InitParse /\ [][ParseVersionOrFeatures]_vars
SpecUrl == InitUrl /\ [][GetManifestFromUrl]_vars
SpecUpdate == InitUpdate /\ [][NextUpdate]_vars

Init ==
    \/ InitSelect \/ InitFuzzy \/ InitQuery \/ InitParse \/ InitUrl \/ InitUpdate

Next ==
    \/ ReadLatestVersion \/ GenFuzzyCrateNames \/ FuzzyQueryRegistryIndex
    \/ ParseVersionOrFeatures \/ GetManifestFromUrl \/ NextUpdate

Spec == Init /\ [][Next]_vars

----
(* Claims about read_latest_version (SpecSelect). *)

Selected == pc = "read_latest_version.return"

\* A record the selection may return: not yanked, and a release unless
\* prereleases are allowed.
Eligible(r, allow_prerelease) ==
    ~r.yanked /\ (allow_prerelease \/ r.version.pre = <<>>)

\* Precedence of semantic versions: a < b.
IdPrecedes(x, y) ==
    \/ x.num /\ y.num /\ x.n < y.n
    \/ x.num /\ ~y.num
    \/ ~x.num /\ ~y.num /\ x.n < y.n

PrePrecedes(p, q) ==
    \/ p # <<>> /\ q = <<>>
    \/ /\ p # <<>> /\ q # <<>>
       /\ \/ \E k \in 1..Min(Len(p), Len(q)) :
                 /\ \A i \in 1..(k - 1) : p[i] = q[i]
                 /\ IdPrecedes(p[k], q[k])
          \/ Len(p) < Len(q) /\ \A i \in 1..Len(p) : p[i] = q[i]

Precedes(a, b) ==
    \/ a.major < b.major
    \/ a.major = b.major /\ a.minor < b.minor
    \/ a.major = b.major /\ a.minor = b.minor /\ a.patch < b.patch
    \/ /\ a.major = b.major /\ a.minor = b.minor /\ a.patch = b.patch
       /\ PrePrecedes(a.pre, b.pre)

\* The descriptor is built from record r.
BuiltFrom(dep, r) ==
    /\ dep.version = Some(version_to_string(r.version))
    /\ dep.name = r.name
    /\ dep.available_features = r.available_features

\* C1: a successful read_latest_version returns the version of a record that
\* is not yanked (also when prereleases are allowed) and, when prereleases
\* are not allowed, is not a prerelease.
C1_SelectedIsEligible ==
    (Selected /\ latest.ok) =>
        \E i \in 1..Len(versions) :
            /\ BuiltFrom(latest.val, versions[i])
            /\ ~versions[i].yanked
            /\ (~flag_allow_prerelease => versions[i].version.pre = <<>>)

\* A successful selection with prereleases allowed from a list that holds a
\* yanked record and a prerelease record.
C1_Witness ==
    /\ Selected /\ latest.ok /\ flag_allow_prerelease
    /\ \E i \in 1..Len(versions) : versions[i].yanked
    /\ \E i \in 1..Len(versions) : versions[i].version.pre # <<>>

Alpha060 == CrateVersion(<<"f", "o", "o">>, Version(0, 6, 0, <<AlnumId(1)>>), FALSE, <<>>)
Release050 == CrateVersion(<<"f", "o", "o">>, Version(0, 5, 0, <<>>), FALSE, <<>>)

\* C2: a successful read_latest_version returns the exact version string of an
\* eligible record that no eligible record exceeds in semantic-version
\* precedence; of 0.6.0-alpha and 0.5.0 it returns 0.6.0-alpha when
\* prereleases are allowed and 0.5.0 when they are not.
C2_SelectedIsMaximum ==
    (Selected /\ latest.ok) =>
        /\ \E i \in 1..Len(versions) :
            /\ Eligible(versions[i], flag_allow_prerelease)
            /\ BuiltFrom(latest.val, versions[i])
            /\ \A j \in 1..Len(versions) :
                   Eligible(versions[j], flag_allow_prerelease)
                       => ~Precedes(versions[i].version, versions[j].version)
        /\ (versions = <<Alpha060, Release050>> =>
               latest.val.version =
                   Some(IF flag_allow_prerelease
                        THEN <<"0", ".", "6", ".", "0", "-", "a", "l", "p", "h", "a">>
                        ELSE <<"0", ".", "5", ".", "0">>))

\* 0.6.0-alpha is chosen over 0.5.0 with prereleases allowed.
C2_Witness ==
    /\ Selected /\ flag_allow_prerelease
    /\ versions = <<Alpha060, Release050>>
    /\ latest.ok
    /\ latest.val.version = Some(<<"0", ".", "6", ".", "0", "-", "a", "l", "p", "h", "a">>)

\* C3: read_latest_version fails, with NoVersionsAvailable and without a
\* descriptor, exactly when no record is eligible; otherwise it succeeds.
C3_FailsIffNothingEligible ==
    Selected =>
        LET none == \A i \in 1..Len(versions) :
                        ~Eligible(versions[i], flag_allow_prerelease)
        IN  /\ none <=> ~latest.ok
            /\ ~latest.ok =>
                   latest.err = "NoVersionsAvailable" /\ DOMAIN latest = {"ok", "err"}

\* The failure when only prereleases are left and they are not allowed.
C3_Witness ==
    /\ Selected /\ ~latest.ok /\ ~flag_allow_prerelease
    /\ \E i \in 1..Len(versions) : ~versions[i].yanked /\ versions[i].version.pre # <<>>

----
(* Claims about gen_fuzzy_crate_names (SpecFuzzy). *)

Generated == pc = "gen_fuzzy_crate_names.return"

SeparatorCount(s) == Cardinality({i \in 1..Len(s) : s[i] \in {"-", "_"}})

\* The strings obtained from s[i..] by choosing '-' or '_' at each separator
\* among the first ten of s and keeping every other byte; seen is the number
\* of separators before index i.
RECURSIVE VariantsFrom(_, _, _)
VariantsFrom(s, i, seen) ==
    IF i > Len(s) THEN {<<>>}
    ELSE IF s[i] \in {"-", "_"}
    THEN IF seen < 10
         THEN {<<c>> \o r : c \in {"-", "_"}, r \in VariantsFrom(s, i + 1, seen + 1)}
         ELSE {<<s[i]>> \o r : r \in VariantsFrom(s, i + 1, seen + 1)}
    ELSE {<<s[i]>> \o r : r \in VariantsFrom(s, i + 1, seen)}

SeparatorVariants(s) == VariantsFrom(s, 1, 0)

\* C4: gen_fuzzy_crate_names returns the 2^min(k,10) pairwise distinct strings
\* obtained by choosing '-' or '_' at each of the first min(k,10) separators
\* of the name, every other byte kept; the name itself is one of them, and a
\* name without separators yields the one-element list holding it.
C4_AllSeparatorChoices ==
    Generated =>
        LET k == SeparatorCount(crate_name)
            entries == {names[i] : i \in 1..Len(names)}
        IN  /\ Len(names) = 2 ^ Min(k, 10)
            /\ Cardinality(entries) = Len(names)
            /\ entries = SeparatorVariants(crate_name)
            /\ crate_name \in entries
            /\ (k = 0 => names = <<crate_name>>)

\* A name with more than ten separators, for which 1024 names are generated.
C4_Witness ==
    /\ Generated
    /\ SeparatorCount(crate_name) > 10
    /\ Len(names) = 1024
    /\ \E i \in 1..Len(crate_name) : crate_name[i] = "a"

----
(* Claims about fuzzy_query_registry_index (SpecQuery). *)

Queried == pc = "fuzzy_query_registry_index.return"

IndexOpened == crate_versions.ok \/ crate_versions.err # <<"Url">>

\* The result of the query is the version list of the index entry of n.
RecordsOf(n) ==
    IF \E i \in 1..Len(index[n]) : index[n][i].version = NoneVal
    THEN ~crate_versions.ok /\ crate_versions.err = <<"ParseVersion">>
    ELSE /\ crate_versions.ok
         /\ Len(crate_versions.val) = Len(index[n])
         /\ \A i \in 1..Len(index[n]) :
                /\ crate_versions.val[i].name = n
                /\ crate_versions.val[i].version = index[n][i].version[1]
                /\ crate_versions.val[i].yanked = index[n][i].yanked

\* C10: fuzzy_query_registry_index probes the exact name first: when the
\* exact name is in the index its records are the result, whatever other
\* variants exist; otherwise the result is that of the first probed variant
\* that exists; NoCrate is returned only when no variant exists.
C10_ExactNameFirst ==
    (Queried /\ IndexOpened) =>
        LET variants == SeparatorVariants(crate_name)
            present == DOMAIN index
        IN  /\ probed # <<>> /\ probed[1] = crate_name
            /\ {probed[i] : i \in 2..Len(probed)} \subseteq variants
            /\ {probed[i] : i \in 1..(Len(probed) - 1)} \cap present = {}
            /\ (crate_name \in present => probed = <<crate_name>> /\ RecordsOf(crate_name))
            /\ IF variants \cap present = {}
               THEN /\ crate_versions = Err(<<"NoCrate", crate_name>>)
                    /\ {probed[i] : i \in 1..Len(probed)} = variants
               ELSE /\ probed[Len(probed)] \in present
                    /\ RecordsOf(probed[Len(probed)])

\* The exact name and the all-underscore variant, which is generated first,
\* are both in the index, and the query succeeds.
C10_Witness ==
    /\ Queried /\ crate_versions.ok
    /\ crate_name \in DOMAIN index
    /\ AllSeparators(crate_name, "_") \in DOMAIN index
    /\ AllSeparators(crate_name, "_") # crate_name

----
(* Claims about parse_version_or_features (SpecParse). *)

Parsed == pc = "parse_version_or_features.return"

AfterFirst(s, c) == SubSeq(s, Position(s, c) + 1, Len(s))
BeforeFirst(s, c) == SubSeq(s, 1, Position(s, c) - 1)

\* C5: for a specifier with both '+' and '@', the descriptor's name holds
\* neither '+' nor '@', its features are the comma-separated items after the
\* first '+', and its version requirement is the text after the first '@' of
\* the part left of the first '+'.
C5_SplitsNamePortion ==
    (/\ Parsed
     /\ Contains(specifier, "+") /\ Contains(specifier, "@")
     /\ parsed.ok /\ parsed.val # NoneVal) =>
        LET dep == parsed.val[1]
            name_portion == BeforeFirst(specifier, "+")
        IN  /\ ~Contains(dep.name, "+")
            /\ ~Contains(dep.name, "@")
            /\ dep.features = Some(Split(AfterFirst(specifier, "+"), ","))
            /\ (Contains(name_portion, "@") =>
                   dep.version = Some(AfterFirst(name_portion, "@")))

\* C6: for a specifier with '@', an invalid requirement after the first '@'
\* gives an error and no descriptor; a descriptor is returned only with its
\* version requirement set to that text, which is then non-empty and valid.
C6_InvalidRequirementFails ==
    (Parsed /\ Contains(specifier, "@")) =>
        LET text == AfterFirst(specifier, "@")
        IN  /\ ~version_req_parse_ok(text) =>
                   ~parsed.ok /\ DOMAIN parsed = {"ok", "err"}
            /\ parsed.ok =>
                   /\ parsed.val # NoneVal
                   /\ parsed.val[1].version = Some(text)
                   /\ text # <<>>
                   /\ version_req_parse_ok(text)

\* A specifier whose text after '@' is not empty and no requirement: an error.
C6_Witness ==
    /\ Parsed /\ Contains(specifier, "@")
    /\ AfterFirst(specifier, "@") # <<>>
    /\ ~version_req_parse_ok(AfterFirst(specifier, "@"))
    /\ ~parsed.ok

----
(* Claims about get_manifest_from_url (SpecUrl). *)

Fetched == pc = "get_manifest_from_url.return"

\* host, then /owner/repo, then nothing, '/' or the suffix ".git"
IsRepositoryUrl(u, host) ==
    /\ Len(u) > Len(host) + 1
    /\ SubSeq(u, 1, Len(host)) = host
    /\ u[Len(host) + 1] = "/"
    /\ LET t == SubSeq(u, Len(host) + 2, Len(u))
       IN  \E a \in 1..Len(t) : \E b \in (a + 2)..Len(t) :
               /\ IsClassRun(SubSeq(t, 1, a))
               /\ t[a + 1] = "/"
               /\ IsClassRun(SubSeq(t, a + 2, b))
               /\ SubSeq(t, b + 1, Len(t)) \in {<<>>, <<"/">>, <<".", "g", "i", "t">>}

\* C7: get_manifest_from_url makes an HTTP request only for a URL that is
\* https://github.com or https://gitlab.com followed by /owner/repo and then
\* nothing, '/' or ".git"; any other URL makes no request.
C7_FetchOnlyRepositoryUrls ==
    (Fetched /\ fetched # <<>>) =>
        IsRepositoryUrl(url, GithubHost) \/ IsRepositoryUrl(url, GitlabHost)

----
(* Claims about update_registry_index (SpecUpdate). *)

Returned == pc = "returned"

\* The failure of an attempt that stands for a locked index.
LockContention(res) == res.kind = "Git" /\ res.class = "Index" /\ res.code = "Locked"

AttemptsWith(P(_)) ==
    Cardinality({i \in 1..Len(events) : events[i].ev = "attempt" /\ P(events[i].res)})

EventCount(ev) == Cardinality({i \in 1..Len(events) : events[i].ev = ev})

\* C8: an attempt that fails otherwise than by lock contention ends the call
\* with that error at once, nothing following it; the call never returns the
\* lock-contention error of an attempt; it returns success only right after
\* an attempt that succeeded.
C8_FatalPropagatesLockNever ==
    /\ \A i \in 1..Len(events) :
           (/\ events[i].ev = "attempt"
            /\ events[i].res # Updated
            /\ ~LockContention(events[i].res)) =>
               /\ i = Len(events)
               /\ Returned
               /\ result = Err(events[i].res)
    /\ Returned =>
           /\ ~result.ok => ~LockContention(result.err)
           /\ result.ok =>
                  /\ events # <<>>
                  /\ events[Len(events)] = Event("attempt", Updated)

\* Lock contention, a report, a sleep, then an attempt that fails with another
\* git error about the index, which is what the call returns.
C8_Witness ==
    /\ Returned
    /\ Len(events) = 4
    /\ events[1] = Event("attempt", GitError("Index", "Locked"))
    /\ events[4] = Event("attempt", GitError("Index", "NotFound"))
    /\ result = Err(GitError("Index", "NotFound"))

\* C9: each lock-contention failure is followed by exactly one blocked report,
\* one sleep and one new attempt, the report being no reason to fail: a call
\* that has returned made one attempt more than it met lock failures, and its
\* last attempt did not meet a locked index.
C9_RetryUntilNotLocked ==
    /\ \A i \in 1..Len(events) :
           (events[i].ev = "attempt" /\ LockContention(events[i].res)) =>
               /\ (i + 1 <= Len(events) => events[i + 1].ev = "report")
               /\ (i + 2 <= Len(events) => events[i + 2].ev = "sleep")
               /\ (i + 3 <= Len(events) => events[i + 3].ev = "attempt")
    /\ (Returned /\ attempts > 0) =>
           /\ attempts = AttemptsWith(LockContention) + 1
           /\ EventCount("report") = AttemptsWith(LockContention)
           /\ EventCount("sleep") = AttemptsWith(LockContention)
           /\ ~LockContention(lastOutcome)

====
